---- MODULE Spec2Model ----
(***************************************************************************)
(* Model of mousetrap-record (src/mousetrap-record.js): the recording      *)
(* state kept in the closure of the exported function, the replacement     *)
(* handleKey, record(), and the idle timer that ends a recording.          *)
(***************************************************************************)
EXTENDS Integers, Sequences, FiniteSets, TLC

\* ------------------------------------------------------------------ bounds

\* longest recorded sequence the model lets a recording grow to
MaxSequence == 2

\* largest combo handed to the normalizer in SpecNormalize
MaxCombo == 3

\* ------------------------------------------------------- JavaScript values

JSUndefined == [type |-> "undefined", num |-> 0, bool |-> FALSE]
JSNull == [type |-> "null", num |-> 0, bool |-> FALSE]
JSNumber(n) == [type |-> "number", num |-> n, bool |-> FALSE]
JSBoolean(b) == [type |-> "boolean", num |-> 0, bool |-> b]

\* ToBoolean of the values above: undefined, null, 0 and false are falsy
Truthy(v) == \/ v.type = "number" /\ v.num # 0
             \/ v.type = "boolean" /\ v.bool

\* a || b
Or(a, b) == IF Truthy(a) THEN a ELSE b

\* ------------------------------------------------------------- key names

\* UTF-16 code units of the key names the model uses
CharCodes ==
  [ alt   |-> <<97, 108, 116>>,
    ctrl  |-> <<99, 116, 114, 108>>,
    shift |-> <<115, 104, 105, 102, 116>>,
    a     |-> <<97>>,
    b     |-> <<98>>,
    k     |-> <<107>> ]

RECURSIVE CodesGreater(_, _)
\* x > y on strings: the first differing code unit decides, a proper prefix
\* is the smaller string
CodesGreater(x, y) ==
  IF x = <<>> THEN FALSE
  ELSE IF y = <<>> THEN TRUE
  ELSE IF Head(x) # Head(y) THEN Head(x) > Head(y)
  ELSE CodesGreater(Tail(x), Tail(y))

StringGreater(x, y) == CodesGreater(CharCodes[x], CharCodes[y])

\* mutant of CompareKeys: the comparator without its two length tests
CompareKeys_NoLengthTest(x, y) == IF StringGreater(x, y) THEN 1 ELSE -1

\* the comparator handed to Array.prototype.sort
CompareKeys(x, y) ==
  IF Len(x) > 1 /\ Len(y) = 1 THEN -1
  ELSE IF Len(x) = 1 /\ Len(y) > 1 THEN 1
  ELSE IF StringGreater(x, y) THEN 1 ELSE -1

RECURSIVE InsertKey(_, _)
InsertKey(sorted, key) ==
  IF sorted = <<>> THEN <<key>>
  ELSE IF CompareKeys(key, Head(sorted)) < 0 THEN <<key>> \o sorted
  ELSE <<Head(sorted)>> \o InsertKey(Tail(sorted), key)

RECURSIVE SortKeys(_)
\* combo.sort(comparator)
SortKeys(combo) ==
  IF combo = <<>> THEN <<>>
  ELSE InsertKey(SortKeys(SubSeq(combo, 1, Len(combo) - 1)), combo[Len(combo)])

RECURSIVE Join(_)
\* combo.join('+')
Join(combo) ==
  IF combo = <<>> THEN ""
  ELSE IF Len(combo) = 1 THEN combo[1]
  ELSE combo[1] \o "+" \o Join(Tail(combo))

\* what _normalizeSequence leaves in the array it is given
NormalizeSequence(sequence) ==
  [i \in 1..Len(sequence) |-> Join(SortKeys(sequence[i]))]

\* what _normalizeSequence leaves in the combos the array refers to: each is
\* sorted in place before it is replaced in the array by its joined string
SortedInPlace(sequence) ==
  [i \in 1..Len(sequence) |-> SortKeys(sequence[i])]

\* ------------------------------------------------------------ environment

\* Mousetrap instances sharing the one patched prototype
Instances == {"m1", "m2"}

\* key names the dispatcher reports in the recording model
Characters == {"ctrl", "a", "k"}
ModifierLists == {<<>>, <<"ctrl">>}
KeyEvents == [type : {"keydown", "keyup"}, repeat : BOOLEAN]

\* key names handed to the normalizer in SpecNormalize
NormalizeKeys == {"alt", "ctrl", "shift", "a", "b", "k"}

\* no options object at construction
NoOptions == <<>>

\* the options objects of SpecConfig; a key an object lacks is absent
OptionsObjects ==
  { [timeout |-> JSNumber(250)],
    [preventDefault |-> JSBoolean(TRUE)],
    [noRepeat |-> JSBoolean(TRUE)],
    [timeout |-> JSNumber(250), preventDefault |-> JSBoolean(TRUE),
     noRepeat |-> JSBoolean(TRUE)] }

\* the completion callbacks callers pass: onComplete only takes the sequence,
\* recordAgain calls this.record(onComplete) before it returns
Callbacks == {"onComplete", "recordAgain"}

\* record(callback) with nothing else given
NoArguments == [timeout |-> JSUndefined, preventDefault |-> JSUndefined,
                noRepeat |-> JSUndefined, progressCallback |-> "undefined"]

\* arguments 2..5 of the record() calls of Spec
RecordArguments ==
  { NoArguments,
    [timeout |-> JSNumber(0), preventDefault |-> JSBoolean(TRUE),
     noRepeat |-> JSBoolean(TRUE), progressCallback |-> "onProgress"] }

\* arguments 2..5 of the record() calls of SpecReentrant
ReentrantArguments ==
  { NoArguments,
    [timeout |-> JSUndefined, preventDefault |-> JSNull,
     noRepeat |-> JSBoolean(FALSE), progressCallback |-> "onProgress"] }

\* arguments 2..5 of the record() calls of SpecConfig: each of the three
\* settings missing, falsy and truthy
ConfigArguments ==
  [timeout : {JSUndefined, JSNumber(0), JSNumber(3000)},
   preventDefault : {JSUndefined, JSBoolean(FALSE), JSBoolean(TRUE)},
   noRepeat : {JSNull, JSBoolean(FALSE), JSBoolean(TRUE)},
   progressCallback : {"undefined"}]

Range(s) == {s[i] : i \in 1..Len(s)}

\* ------------------------------------------------------------------ state

VARIABLES
  options,                   \* the options argument of the exported function
  config,                    \* _config
  recordedSequence,          \* _recordedSequence: list of combos, each a list
  recordedSequenceCallback,  \* <<>> for null, else <<[self, callback]>>
  recordProgressCallback,    \* "undefined" or the callback's name
  currentRecordedKeys,       \* _currentRecordedKeys
  recordedCharacterKey,      \* _recordedCharacterKey
  recordTimer,               \* <<id>>, the handle setTimeout gave; <<>> for
                             \* null and for the handle of a timeout that ran
  timers,                    \* the timeouts pending in the host: [id, delay]
  recordTimeout,             \* _recordTimeout
  preventDefault,            \* _preventDefault
  noRepeat,                  \* _noRepeat
  recording,                 \* self.recording of each instance
  last,                      \* the last operation and the calls it made
  closedCombos,              \* history: key sets closed since the last reset
  scenario,                  \* history: events since record() from Idle
  boundaryEvents,            \* history, kept where it starts as <<0>>: <<n>>
                             \* for n combo-boundary events since record()
  normInput,                 \* SpecNormalize: the array given to the normalizer
  normOutput                 \* SpecNormalize: that array afterwards

vars == <<options, config, recordedSequence, recordedSequenceCallback,
          recordProgressCallback, currentRecordedKeys, recordedCharacterKey,
          recordTimer, timers, recordTimeout, preventDefault, noRepeat,
          recording,
          last, closedCombos, scenario, boundaryEvents, normInput,
          normOutput>>

recordState == <<recordedSequence, currentRecordedKeys, recordedCharacterKey,
                 recordTimer>>

\* default timeout of _config
DefaultTimeout == 1000

Defaults == [timeout |-> JSNumber(DefaultTimeout),
             preventDefault |-> JSBoolean(FALSE),
             noRepeat |-> JSBoolean(FALSE)]

\* Object.assign(target, source)
ObjectAssign(target, source) ==
  [key \in DOMAIN target \cup DOMAIN source |->
     IF key \in DOMAIN source THEN source[key] ELSE target[key]]

\* last before any operation. An operation leaves in it its name and receiver,
\* for handleKey the path _handleKey took ("ignored", "passed", "recorded")
\* and, when it reached the recording code, the event type and character it
\* read there, and the calls it made: counted (_origHandleKey, which is
\* applied to the receiver and arguments handleKey got, e.preventDefault and
\* _restartRecordTimer) or listed by their argument (the callbacks). Two
\* observations of the event
\* itself: unwantedRepeat, its repeat flag was set while noRepeat was on;
\* heldRepeat, it was an auto-repeat keydown, on a recording instance with
\* noRepeat off, of a key the open combo already held
NoOperation ==
  [op |-> "none", self |-> "m1", path |-> "", type |-> "", character |-> "",
   unwantedRepeat |-> FALSE, heldRepeat |-> FALSE, arguments |-> NoArguments,
   origHandleKey |-> 0, preventDefault |-> 0, restarts |-> 0,
   progress |-> <<>>,
   callback |-> "", completed |-> <<>>, closedCombos |-> <<>>,
   boundaryEvents |-> <<>>,
   scenario |-> [on |-> FALSE, self |-> "m1", events |-> <<>>]]

ScenarioOff == [on |-> FALSE, self |-> "m1", events |-> <<>>]

Idle == \A self \in Instances : ~recording[self]

\* the closure of the exported function once it has run with these options
Construct(opts) ==
  /\ options = opts
  /\ config = ObjectAssign(Defaults, options)
  /\ recordedSequence = <<>>
  /\ recordedSequenceCallback = <<>>
  /\ recordProgressCallback = "undefined"
  /\ currentRecordedKeys = <<>>
  /\ recordedCharacterKey = FALSE
  /\ recordTimer = <<>>
  /\ timers = {}
  /\ recordTimeout = config["timeout"]
  /\ preventDefault = config["preventDefault"]
  /\ noRepeat = config["noRepeat"]
  /\ recording = [self \in Instances |-> FALSE]
  /\ last = NoOperation
  /\ closedCombos = <<>>
  /\ scenario = ScenarioOff

NotNormalized == [done |-> FALSE, sequence |-> <<>>, combos |-> <<>>]

Init ==
  /\ Construct(NoOptions)
  /\ boundaryEvents = <<>>
  /\ normInput = <<>>
  /\ normOutput = NotNormalized

\* ----------------------------------------------------- recording helpers

\* the closure variables _handleKey and its helpers write and the host's
\* pending timeouts, with the number of _restartRecordTimer calls, the
\* progress callback's arguments and the history of closed key sets gathered
\* on the way
Memory ==
  [recordedSequence |-> recordedSequence,
   currentRecordedKeys |-> currentRecordedKeys,
   recordedCharacterKey |-> recordedCharacterKey,
   recordTimer |-> recordTimer,
   timers |-> timers,
   restarts |-> 0,
   progress |-> <<>>,
   closedCombos |-> closedCombos]

\* setTimeout(_finishRecording, delay): the host adds a pending timeout under
\* the smallest id not in use and returns the id
SetTimeout(pending, delay) ==
  LET Free(n) == \A t \in pending : t.id # n
      id == CHOOSE n \in 1..(Cardinality(pending) + 1) :
              Free(n) /\ \A k \in 1..(n - 1) : ~Free(k)
  IN [id |-> id, delay |-> delay]

\* clearTimeout(handle): the timeout the handle names is no longer pending
ClearTimeout(pending, handle) == {t \in pending : <<t.id>> # handle}

\* mutant of RestartRecordTimer: the pending timeout is not cleared
RestartRecordTimer_NoClear(m) ==
  LET t == SetTimeout(m.timers, recordTimeout)
  IN [m EXCEPT !.timers = m.timers \cup {t},
               !.recordTimer = <<t.id>>,
               !.restarts = @ + 1]

\* _restartRecordTimer
RestartRecordTimer(m) ==
  LET kept == ClearTimeout(m.timers, m.recordTimer)
      t == SetTimeout(kept, recordTimeout)
  IN [m EXCEPT !.timers = kept \cup {t},
               !.recordTimer = <<t.id>>,
               !.restarts = @ + 1]

\* mutant of RecordCurrentCombo: the combo is put in front of the sequence
RecordCurrentCombo_Unshift(m) ==
  RestartRecordTimer(
    [m EXCEPT !.recordedSequence = <<m.currentRecordedKeys>> \o @,
              !.currentRecordedKeys = <<>>,
              !.recordedCharacterKey = FALSE,
              !.closedCombos = Append(@, Range(m.currentRecordedKeys))])

\* _recordCurrentCombo
RecordCurrentCombo(m) ==
  RestartRecordTimer(
    [m EXCEPT !.recordedSequence = Append(@, m.currentRecordedKeys),
              !.currentRecordedKeys = <<>>,
              !.recordedCharacterKey = FALSE,
              !.closedCombos = Append(@, Range(m.currentRecordedKeys))])

\* mutant of ReportProgress: the callback gets the Sequence without the open
\* combo
ReportProgress_SequenceOnly(m) ==
  IF recordProgressCallback # "undefined"
  THEN [m EXCEPT
          !.progress = Append(@, NormalizeSequence(m.recordedSequence)),
          !.recordedSequence = SortedInPlace(@)]
  ELSE m

\* the tail of _recordKey: the progress callback gets a copy of the array, but
\* the copy refers to the live combos, which the normalizer sorts in place
ReportProgress(m) ==
  IF recordProgressCallback # "undefined"
  THEN [m EXCEPT
          !.progress = Append(@, NormalizeSequence(
                          Append(m.recordedSequence, m.currentRecordedKeys))),
          !.recordedSequence = SortedInPlace(@),
          !.currentRecordedKeys = SortKeys(@)]
  ELSE m

\* mutant of RecordKey: the key is pushed without the search for it
RecordKey_NoSearch(m, key) ==
  ReportProgress(
    [m EXCEPT !.currentRecordedKeys = Append(@, key),
              !.recordedCharacterKey = IF Len(key) = 1 THEN TRUE ELSE @])

\* mutant of RecordKey: the search looks at the first key of the combo only
RecordKey_FirstOnly(m, key) ==
  IF m.currentRecordedKeys # <<>> /\ key = m.currentRecordedKeys[1]
  THEN m
  ELSE ReportProgress(
         [m EXCEPT !.currentRecordedKeys = Append(@, key),
                   !.recordedCharacterKey = IF Len(key) = 1 THEN TRUE ELSE @])

\* _recordKey
RecordKey(m, key) ==
  IF key \in Range(m.currentRecordedKeys)
  THEN m
  ELSE ReportProgress(
         [m EXCEPT !.currentRecordedKeys = Append(@, key),
                   !.recordedCharacterKey = IF Len(key) = 1 THEN TRUE ELSE @])

RECURSIVE RecordKeys(_, _)
\* the loop of _handleKey over modifiers
RecordKeys(m, keys) ==
  IF keys = <<>> THEN m
  ELSE RecordKeys(RecordKey(m, Head(keys)), Tail(keys))

\* mutant of IgnoredRepeat: the repeat flag is not looked at
IgnoredRepeat_Never(e) == FALSE

\* the first test of _handleKey
IgnoredRepeat(e) == Truthy(noRepeat) /\ e.repeat

\* the test of _handleKey that closes the combo before a character key
ReentryBoundary(m, character) ==
  Len(character) = 1 /\ m.recordedCharacterKey

\* mutant of ReleaseBoundary: every keyup closes the combo, empty or not
ReleaseBoundary_Always(m, e) == e.type = "keyup"

\* the test of _handleKey that closes the combo on a release
ReleaseBoundary(m, e) ==
  e.type = "keyup" /\ Len(m.currentRecordedKeys) > 0

\* _handleKey once self.recording is known to be set
RecordEvent(m, character, modifiers, e) ==
  IF e.type = "keydown"
  THEN LET start == IF ReentryBoundary(m, character)
                    THEN RecordCurrentCombo(m) ELSE m
       IN RecordKey(RecordKeys(start, modifiers), character)
  ELSE IF ReleaseBoundary(m, e) THEN RecordCurrentCombo(m)
  ELSE m

\* the event's key and modifiers are all in the open combo already: the key
\* went down earlier and no keyup has closed the combo since
HeldDown(character, modifiers) ==
  /\ character \in Range(currentRecordedKeys)
  /\ Range(modifiers) \subseteq Range(currentRecordedKeys)

\* whether _handleKey hands the event to _origHandleKey
PassedThrough(self, e) == ~IgnoredRepeat(e) /\ ~recording[self]

\* whether _handleKey reaches the recording code
Recorded(self, e) == ~IgnoredRepeat(e) /\ recording[self]

\* mutant of ResolveTimeout: falls back to the timeout of the last call
ResolveTimeout_CarryOver(timeout) == Or(timeout, recordTimeout)

\* the resolution of record()'s optional arguments
ResolveTimeout(timeout) == Or(timeout, config["timeout"])
ResolvePreventDefault(arg) == Or(arg, config["preventDefault"])
ResolveNoRepeat(arg) == Or(arg, config["noRepeat"])

\* ------------------------------------------------- history of a session

\* number of keydown events the history starts with
LeadingDowns(h) ==
  Cardinality({i \in 1..Len(h) : \A j \in 1..i : h[j].type = "keydown"})

Pressed(h, n) == {h[j].character : j \in 1..n}

\* h begins a chord: keydowns of distinct named keys, then the keydown of one
\* character key carrying them as modifiers, then keyups of the pressed keys,
\* each at most once
IsChordPrefix(h) ==
  LET d == LeadingDowns(h) IN
  /\ \A i \in 1..d :
       IF Len(h[i].character) = 1
       THEN i = d /\ i > 1 /\ Range(h[i].modifiers) = Pressed(h, i - 1)
       ELSE /\ h[i].character \notin Pressed(h, i - 1)
            /\ Range(h[i].modifiers) \subseteq Pressed(h, i)
  /\ Len(h) > d => d > 1 /\ Len(h[d].character) = 1
  /\ \A i \in (d + 1)..Len(h) :
       /\ h[i].type = "keyup"
       /\ h[i].character \in Pressed(h, d)
       /\ \A j \in (d + 1)..(i - 1) : h[j].character # h[i].character

\* the chord has seen at least one of its keyups
ChordReleasing(h) == IsChordPrefix(h) /\ Len(h) > LeadingDowns(h)

\* every key of the chord is up again
ChordReleased(h) == ChordReleasing(h) /\ Len(h) = 2 * LeadingDowns(h)

Down(key) == [type |-> "keydown", character |-> key, modifiers |-> <<>>]
Up(key) == [type |-> "keyup", character |-> key, modifiers |-> <<>>]

\* keydown x, keydown y, keyup x, keyup y
ReentryScript(x, y) == <<Down(x), Down(y), Up(x), Up(y)>>

SingleCharacters == {c \in Characters : Len(c) = 1}

IsReentryPrefix(h) ==
  \E x, y \in SingleCharacters :
    /\ x # y
    /\ Len(h) <= 4
    /\ h = SubSeq(ReentryScript(x, y), 1, Len(h))

\* the history after one more event: kept while the events on the recording
\* instance form a chord or the re-entry script, dropped otherwise
ScenarioAfter(self, character, modifiers, e) ==
  LET h == Append(scenario.events,
                  [type |-> e.type, character |-> character,
                   modifiers |-> modifiers])
  IN IF /\ scenario.on
        /\ scenario.self = self
        /\ ~e.repeat
        /\ IsChordPrefix(h) \/ IsReentryPrefix(h)
     THEN [scenario EXCEPT !.events = h]
     ELSE ScenarioOff

\* the event is a combo boundary as section 4.3 defines one: it reaches the
\* recording code of a recording instance and is the keydown of a character
\* key while the open combo holds a character key (re-entry), or a keyup
\* while the open combo holds any key (release)
IsBoundaryEvent(self, character, e) ==
  /\ recording[self]
  /\ ~(e.repeat /\ Truthy(noRepeat))
  /\ \/ /\ e.type = "keydown"
        /\ Len(character) = 1
        /\ \E key \in Range(currentRecordedKeys) : Len(key) = 1
     \/ /\ e.type = "keyup"
        /\ currentRecordedKeys # <<>>

\* ---------------------------------------------------------------- actions

\* Mousetrap.prototype.record
Record(self, callback, arguments) ==
  /\ recording' = [recording EXCEPT ![self] = TRUE]
  /\ recordTimeout' = ResolveTimeout(arguments.timeout)
  /\ recordProgressCallback' = arguments.progressCallback
  /\ preventDefault' = ResolvePreventDefault(arguments.preventDefault)
  /\ noRepeat' = ResolveNoRepeat(arguments.noRepeat)
  /\ recordedSequenceCallback' = <<[self |-> self, callback |-> callback]>>
  /\ last' = [NoOperation EXCEPT !.op = "record", !.self = self,
                                 !.callback = callback,
                                 !.arguments = arguments]
  /\ scenario' = IF Idle THEN [on |-> TRUE, self |-> self, events |-> <<>>]
                 ELSE ScenarioOff
  /\ boundaryEvents' = IF recording[self] \/ boundaryEvents = <<>>
                       THEN boundaryEvents ELSE <<0>>
  /\ UNCHANGED <<options, config, recordedSequence, currentRecordedKeys,
                 recordedCharacterKey, recordTimer, timers, closedCombos,
                 normInput, normOutput>>

\* Mousetrap.prototype.handleKey, that is _handleKey applied to the instance
HandleKey(self, character, modifiers, e) ==
  LET m == IF Recorded(self, e)
           THEN RecordEvent(Memory, character, modifiers, e)
           ELSE Memory
  IN /\ Len(m.recordedSequence) <= MaxSequence
     /\ recordedSequence' = m.recordedSequence
     /\ currentRecordedKeys' = m.currentRecordedKeys
     /\ recordedCharacterKey' = m.recordedCharacterKey
     /\ recordTimer' = m.recordTimer
     /\ timers' = m.timers
     /\ closedCombos' = m.closedCombos
     /\ last' = [NoOperation EXCEPT
                   !.op = "handleKey", !.self = self,
                   !.path = IF IgnoredRepeat(e) THEN "ignored"
                            ELSE IF PassedThrough(self, e) THEN "passed"
                            ELSE "recorded",
                   !.type = IF Recorded(self, e) THEN e.type ELSE "",
                   !.character = IF Recorded(self, e) THEN character ELSE "",
                   !.unwantedRepeat = e.repeat /\ Truthy(noRepeat),
                   !.heldRepeat = /\ recording[self] /\ ~Truthy(noRepeat)
                                  /\ e.type = "keydown" /\ e.repeat
                                  /\ HeldDown(character, modifiers),
                   !.origHandleKey = IF PassedThrough(self, e) THEN 1 ELSE 0,
                   !.preventDefault =
                      IF Recorded(self, e) /\ Truthy(preventDefault)
                      THEN 1 ELSE 0,
                   !.restarts = m.restarts,
                   !.progress = m.progress]
     /\ scenario' = ScenarioAfter(self, character, modifiers, e)
     /\ boundaryEvents' =
          IF boundaryEvents # <<>> /\ IsBoundaryEvent(self, character, e)
          THEN <<boundaryEvents[1] + 1>> ELSE boundaryEvents
     /\ UNCHANGED <<options, config, recordedSequenceCallback,
                    recordProgressCallback, recordTimeout, preventDefault,
                    noRepeat, recording, normInput, normOutput>>

\* whether _finishRecording finds a callback to call
CallbackRegistered == recordedSequenceCallback # <<>>

\* whether the callback it calls is one that calls this.record(onComplete)
RecordsAgain ==
  CallbackRegistered /\ recordedSequenceCallback[1].callback = "recordAgain"

\* the calls _finishRecording makes: the wrapper record() stored, which
\* applies the caller's callback to the normalized sequence
CompletionCalls ==
  IF CallbackRegistered
  THEN <<[callback |-> recordedSequenceCallback[1].callback,
          self |-> recordedSequenceCallback[1].self,
          sequence |-> NormalizeSequence(recordedSequence)]>>
  ELSE <<>>

\* self.recording after the wrapper has run: it clears the flag of the
\* instance record() was called on, and a callback that records again sets it
RecordingAfterCallback ==
  IF CallbackRegistered
  THEN [recording EXCEPT ![recordedSequenceCallback[1].self] = RecordsAgain]
  ELSE recording

\* the pending timeout t runs: _finishRecording
FinishRecording(t) ==
  /\ t \in timers
  /\ timers' = timers \ {t}
  /\ recordTimer' = IF recordTimer = <<t.id>> THEN <<>> ELSE recordTimer
  /\ recording' = RecordingAfterCallback
  /\ recordTimeout' =
       IF RecordsAgain THEN ResolveTimeout(JSUndefined) ELSE recordTimeout
  /\ preventDefault' =
       IF RecordsAgain THEN ResolvePreventDefault(JSUndefined)
       ELSE preventDefault
  /\ noRepeat' =
       IF RecordsAgain THEN ResolveNoRepeat(JSUndefined) ELSE noRepeat
  /\ recordProgressCallback' =
       IF RecordsAgain THEN "undefined" ELSE recordProgressCallback
  /\ recordedSequence' = <<>>
  /\ recordedSequenceCallback' = <<>>
  /\ currentRecordedKeys' = <<>>
  /\ closedCombos' = <<>>
  /\ last' = [NoOperation EXCEPT !.op = "finishRecording",
                                 !.callback =
                                    IF recordedSequenceCallback = <<>> THEN ""
                                    ELSE recordedSequenceCallback[1].callback,
                                 !.completed = CompletionCalls,
                                 !.closedCombos = closedCombos,
                                 !.boundaryEvents = boundaryEvents,
                                 !.scenario = scenario]
  /\ scenario' = ScenarioOff
  /\ boundaryEvents' = IF boundaryEvents = <<>> THEN <<>> ELSE <<0>>
  /\ UNCHANGED <<options, config, recordedCharacterKey, normInput, normOutput>>

Next ==
  \/ \E self \in Instances, arguments \in RecordArguments :
       Record(self, "onComplete", arguments)
  \/ \E self \in Instances, character \in Characters,
        modifiers \in ModifierLists, e \in KeyEvents :
       HandleKey(self, character, modifiers, e)
  \/ \E t \in timers : FinishRecording(t)

Spec == Init /\ [][Next]_vars

\* one instance whose completion callback may call record() again
NextReentrant ==
  \/ \E callback \in Callbacks, arguments \in ReentrantArguments :
       Record("m1", callback, arguments)
  \/ \E character \in Characters, modifiers \in ModifierLists,
        e \in KeyEvents :
       HandleKey("m1", character, modifiers, e)
  \/ \E t \in timers : FinishRecording(t)

SpecReentrant == Init /\ [][NextReentrant]_vars

\* the same instance and callbacks, with the combo-boundary events counted
InitBoundaries ==
  /\ Construct(NoOptions)
  /\ boundaryEvents = <<0>>
  /\ normInput = <<>>
  /\ normOutput = NotNormalized

NextBoundaries ==
  \/ \E callback \in Callbacks, arguments \in ReentrantArguments :
       Record("m1", callback, arguments)
  \/ \E character \in Characters, modifiers \in ModifierLists,
        e \in KeyEvents :
       HandleKey("m1", character, modifiers, e)
  \/ \E t \in timers : FinishRecording(t)

SpecBoundaries == InitBoundaries /\ [][NextBoundaries]_vars

\* construction with an options object and record() calls that give, omit or
\* give falsy each setting, on one instance that types one key
InitConfig ==
  /\ \E opts \in OptionsObjects : Construct(opts)
  /\ boundaryEvents = <<>>
  /\ normInput = <<>>
  /\ normOutput = NotNormalized

NextConfig ==
  \/ \E arguments \in ConfigArguments : Record("m1", "onComplete", arguments)
  \/ \E e \in KeyEvents : HandleKey("m1", "a", <<>>, e)
  \/ \E t \in timers : FinishRecording(t)

SpecConfig == InitConfig /\ [][NextConfig]_vars

\* the normalizer alone, applied to an array holding one combo of distinct
\* key names in any order
ComboLists ==
  {combo \in UNION {[1..n -> NormalizeKeys] : n \in 0..MaxCombo} :
     \A i, j \in 1..Len(combo) : combo[i] = combo[j] => i = j}

InitNormalize ==
  /\ Construct(NoOptions)
  /\ boundaryEvents = <<>>
  /\ normInput \in {<<combo>> : combo \in ComboLists}
  /\ normOutput = NotNormalized

\* _normalizeSequence(normInput): the strings left in the array, and the
\* combos the array referred to, as sort left them
Normalize ==
  /\ ~normOutput.done
  /\ normOutput' = [done |-> TRUE,
                    sequence |-> NormalizeSequence(normInput),
                    combos |-> SortedInPlace(normInput)]
  /\ UNCHANGED <<options, config, recordedSequence, recordedSequenceCallback,
                 recordProgressCallback, currentRecordedKeys,
                 recordedCharacterKey, recordTimer, timers, recordTimeout,
                 preventDefault, noRepeat, recording, last, closedCombos,
                 scenario, boundaryEvents, normInput>>

NextNormalize == Normalize

SpecNormalize == InitNormalize /\ [][NextNormalize]_vars

\* ================================================================ claims

\* the key names of NormalizeKeys written out in the order section 4.2 asks
\* for: names longer than one character ascending, then characters ascending
ExpectedOrder == <<"alt", "ctrl", "shift", "a", "b", "k">>

\* the key names in keys, each once, in ExpectedOrder
Canonical(keys) ==
  LET Rank(i) == Cardinality({j \in 1..i : ExpectedOrder[j] \in keys})
      n == Rank(Len(ExpectedOrder))
  IN [r \in 1..n |->
        ExpectedOrder[CHOOSE i \in 1..Len(ExpectedOrder) :
                        ExpectedOrder[i] \in keys /\ Rank(i) = r]]

\* C8: normalizing a combo of distinct key names leaves its keys, each exactly
\* once, with the names longer than one character first in ascending order
\* and the characters after them in ascending order, joined with '+',
\* whatever order they were pressed in; {"k","ctrl"} gives "ctrl+k"
C8_ComboNormalization ==
  normOutput.done =>
    /\ Len(normOutput.combos) = 1 /\ Len(normOutput.sequence) = 1
    /\ normOutput.combos[1] = Canonical(Range(normInput[1]))
    /\ normOutput.sequence[1] = Join(Canonical(Range(normInput[1])))
    /\ normInput[1] \in {<<"k", "ctrl">>, <<"ctrl", "k">>}
         => normOutput.sequence[1] = "ctrl+k"
    /\ Range(normInput[1]) = {"a", "shift", "alt"}
         => normOutput.sequence[1] = "alt+shift+a"

\* C8 witness: the combo pressed as k, ctrl has been normalized to "ctrl+k"
C8_Witness ==
  /\ normOutput.done
  /\ normInput = << <<"k", "ctrl">> >>
  /\ normOutput.sequence = <<"ctrl+k">>

Delivery(closed) == [i \in 1..Len(closed) |-> Join(Canonical(closed[i]))]

\* C2: a firing of the idle timer that finds a completion callback registered
\* calls it exactly once, with one '+'-joined string for each combo closed in
\* the recording the firing ends (closedCombos: every combo closed since the
\* Sequence was last empty), in the order the combos were closed; and while no
\* instance records nothing is closed or open, so a recording begun from Idle
\* starts with none
C2_CompletionDelivery ==
  /\ Idle => /\ closedCombos = <<>>
             /\ recordedSequence = <<>>
             /\ currentRecordedKeys = <<>>
  /\ (last.op = "finishRecording" /\ last.callback # "")
       => /\ Len(last.completed) = 1
          /\ last.completed[1].callback = last.callback
          /\ last.completed[1].sequence = Delivery(last.closedCombos)

\* C2 witness: a firing delivered two different combos, closed in this order
C2_Witness ==
  /\ last.op = "finishRecording"
  /\ last.closedCombos = <<{"k", "ctrl"}, {"a"}>>
  /\ Len(last.completed) = 1
  /\ last.completed[1].sequence = <<"ctrl+k", "a">>

\* C3: after every firing of the idle timer the Sequence and the current Combo
\* are empty, the completion callback is cleared and no instance that had
\* started a recording still has its recording flag set
C3_ResetAfterFiring ==
  last.op = "finishRecording"
    => /\ recordedSequence = <<>>
       /\ currentRecordedKeys = <<>>
       /\ recordedSequenceCallback = <<>>
       /\ \A self \in Instances : ~recording[self]

NoDuplicates(combo) ==
  \A i, j \in 1..Len(combo) : combo[i] = combo[j] => i = j

\* C4 as claimed: while noRepeat is false a repeated keydown of any key held
\* down, with no keyup in between, neither adds a key to the open combo nor
\* closes the combo
C4_HeldKeyRecordedOnce ==
  [][(last'.op = "handleKey" /\ last'.heldRepeat)
       => UNCHANGED <<recordedSequence, currentRecordedKeys>>
    ]_vars

\* C4 as amended: while noRepeat is false a repeated keydown of a held key
\* whose name is longer than one character changes nothing; a repeated
\* keydown of a held single-character key closes the open combo and opens a
\* new one that holds that key and keys of the closed combo, each once
C4_HeldKeyAmended ==
  [][(last'.op = "handleKey" /\ last'.heldRepeat)
       => IF Len(last'.character) > 1
          THEN UNCHANGED <<recordedSequence, currentRecordedKeys,
                           recordedCharacterKey, recordTimer>>
          ELSE /\ Len(recordedSequence') = Len(recordedSequence) + 1
               /\ closedCombos' =
                    Append(closedCombos, Range(currentRecordedKeys))
               /\ last'.character \in Range(currentRecordedKeys')
               /\ Range(currentRecordedKeys') \subseteq
                    Range(currentRecordedKeys)
               /\ NoDuplicates(currentRecordedKeys')
               /\ recordTimer' # <<>>
    ]_vars

\* C4 witness: ctrl auto-repeated while held in the open combo, noRepeat off
C4_Witness ==
  /\ last.op = "handleKey" /\ last.heldRepeat
  /\ last.character = "ctrl"
  /\ ~Truthy(noRepeat)
  /\ currentRecordedKeys = <<"ctrl">>
  /\ recordedSequence = <<>>

\* C5: in a session started from Idle, keydowns of named keys, then the
\* keydown of one character key carrying them, then the keyups of those keys
\* in any order leave exactly one combo, holding all the pressed keys, from
\* the first keyup on, and that one combo is what the firing delivers
C5_Chord ==
  /\ (scenario.on /\ ChordReleasing(scenario.events))
       => /\ closedCombos =
               <<Pressed(scenario.events, LeadingDowns(scenario.events))>>
          /\ Len(recordedSequence) = 1
          /\ currentRecordedKeys = <<>>
  /\ (/\ last.op = "finishRecording" /\ last.callback # ""
      /\ last.scenario.on /\ ChordReleased(last.scenario.events))
       => /\ Len(last.completed) = 1
          /\ last.completed[1].sequence =
               <<Join(Canonical(Pressed(last.scenario.events,
                                        LeadingDowns(last.scenario.events))))>>

\* C6: in a session started from Idle, keydown x, keydown y, keyup x, keyup y
\* of two character keys closes the combo {x} at the second keydown, before y
\* is added to a fresh combo, and the firing delivers [x, y]
C6_Reentry ==
  \A x, y \in SingleCharacters :
    x # y =>
      /\ (scenario.on /\ scenario.events = <<Down(x), Down(y)>>)
           => /\ closedCombos = <<{x}>>
              /\ currentRecordedKeys = <<y>>
              /\ recordTimer # <<>>
      /\ (/\ last.op = "finishRecording" /\ last.callback # ""
          /\ last.scenario.on /\ last.scenario.events = ReentryScript(x, y))
           => /\ Len(last.completed) = 1
              /\ last.completed[1].sequence = <<x, y>>

\* C7: with noRepeat resolved to true, an event whose repeat flag is set and
\* that arrives on a recording instance changes neither the Sequence, the
\* current Combo, the has-character flag nor the idle timer, and calls
\* neither the progress callback nor the event's preventDefault
C7_RepeatIgnored ==
  [][(/\ last'.op = "handleKey" /\ last'.unwantedRepeat
      /\ recording[last'.self])
       => /\ UNCHANGED <<recordedSequence, currentRecordedKeys,
                         recordedCharacterKey, recordTimer>>
          /\ last'.progress = <<>>
          /\ last'.preventDefault = 0
    ]_vars

\* C7 witness: a repeat was ignored on a recording instance while a combo was
\* open and both the progress callback and preventDefault were switched on
C7_Witness ==
  /\ last.op = "handleKey" /\ last.unwantedRepeat
  /\ recording[last.self]
  /\ Truthy(noRepeat) /\ Truthy(preventDefault)
  /\ recordProgressCallback = "onProgress"
  /\ currentRecordedKeys # <<>>

\* the construction-time value of a setting: the options object's, or the
\* default where the object lacks the key
Configured(key) ==
  IF key \in DOMAIN options THEN options[key]
  ELSE IF key = "timeout" THEN JSNumber(1000) ELSE JSBoolean(FALSE)

\* an argument of record() when truthy, the construction-time value otherwise
Resolved(argument, key) ==
  IF argument.type = "number" /\ argument.num # 0 THEN argument
  ELSE IF argument.type = "boolean" /\ argument.bool THEN argument
  ELSE Configured(key)

\* C9: after every record() call each of timeout, preventDefault and noRepeat
\* is the call's argument when that is truthy and the construction-time value
\* otherwise, whatever earlier calls were given
C9_ConfigResolution ==
  last.op = "record"
    => /\ recordTimeout = Resolved(last.arguments.timeout, "timeout")
       /\ preventDefault =
            Resolved(last.arguments.preventDefault, "preventDefault")
       /\ noRepeat = Resolved(last.arguments.noRepeat, "noRepeat")

\* C9 witness: record() with an explicit 0 timeout fell back to the timeout
\* the options object gave
C9_Witness ==
  /\ last.op = "record"
  /\ last.arguments.timeout = JSNumber(0)
  /\ "timeout" \in DOMAIN options
  /\ recordTimeout = JSNumber(250)

\* C10: every firing of the idle timer, which a combo boundary of a recording
\* session scheduled, calls that session's completion callback exactly once
C10_CompletedOnce ==
  last.op = "finishRecording" => Len(last.completed) = 1

\* C11: while a progress callback is registered, a key event on a recording
\* instance calls it once for every key the event adds to the open combo and
\* not at all for a key the combo already holds; every call gets the closed
\* combos of the Sequence, normalized and in order, followed by the open combo
\* as it then stands, normalized, so Sequence length plus one elements
C11_ProgressReporting ==
  [][(/\ last'.op = "handleKey" /\ recording[last'.self]
      /\ recordProgressCallback # "undefined")
       => LET reentry == /\ last'.type = "keydown"
                         /\ Len(closedCombos') > Len(closedCombos)
              base == IF reentry THEN {} ELSE Range(currentRecordedKeys)
              added == Range(currentRecordedKeys') \ base
              calls == last'.progress
          IN /\ Len(calls) = Cardinality(added)
             /\ \A i \in 1..Len(calls) :
                  /\ Len(calls[i]) = Len(recordedSequence') + 1
                  /\ SubSeq(calls[i], 1, Len(calls[i]) - 1) =
                       Delivery(closedCombos')
                  /\ \E S \in SUBSET added :
                       /\ Cardinality(S) = i
                       /\ calls[i][Len(calls[i])] =
                            Join(Canonical(base \cup S))
    ]_vars

\* C11 witness: with the combo "a" closed, the keydown of k carrying ctrl
\* reported progress twice, once for each key it added
C11_Witness ==
  /\ last.op = "handleKey"
  /\ recordProgressCallback = "onProgress"
  /\ last.progress = << <<"a", "ctrl">>, <<"a", "ctrl+k">> >>

\* C12: a key event that calls the progress callback leaves the live arrays
\* as the pushes alone made them: the combos already in the Sequence keep
\* their keys in the same order, a combo the event closes enters the Sequence
\* as it stood, and the keys the open combo already held stay in front, in
\* their order, of the keys the event added
C12_ProgressKeepsLiveState ==
  [][(last'.op = "handleKey" /\ last'.progress # <<>>)
       => /\ Len(recordedSequence') >= Len(recordedSequence)
          /\ SubSeq(recordedSequence', 1, Len(recordedSequence)) =
               recordedSequence
          /\ IF Len(recordedSequence') > Len(recordedSequence)
             THEN recordedSequence'[Len(recordedSequence')] =
                    currentRecordedKeys
             ELSE /\ Len(currentRecordedKeys') >= Len(currentRecordedKeys)
                  /\ SubSeq(currentRecordedKeys', 1,
                            Len(currentRecordedKeys)) = currentRecordedKeys
    ]_vars

\* C13: a keyup that reaches the recording code of a recording instance
\* closes the open combo exactly when the combo holds a key: the combo is
\* appended to the Sequence as it stands, the open combo and the
\* has-character flag are cleared and the idle timer is restarted once; with
\* no key in the open combo the keyup leaves all four as they were
C13_ReleaseBoundary ==
  [][(last'.op = "handleKey" /\ last'.type = "keyup")
       => IF currentRecordedKeys # <<>>
          THEN /\ recordedSequence' =
                    Append(recordedSequence, currentRecordedKeys)
               /\ closedCombos' =
                    Append(closedCombos, Range(currentRecordedKeys))
               /\ currentRecordedKeys' = <<>>
               /\ recordedCharacterKey' = FALSE
               /\ last'.restarts = 1
               /\ recordTimer' # <<>>
               /\ \E t \in timers' : <<t.id>> = recordTimer'
          ELSE /\ UNCHANGED <<recordedSequence, currentRecordedKeys,
                              recordedCharacterKey, recordTimer, timers>>
               /\ last'.restarts = 0
    ]_vars

\* C13 witness: the keyup of k closed the combo ctrl, k behind the combo a
C13_Witness ==
  /\ last.op = "handleKey" /\ last.type = "keyup" /\ last.character = "k"
  /\ last.restarts = 1
  /\ closedCombos = <<{"a"}, {"ctrl", "k"}>>
  /\ currentRecordedKeys = <<>>

\* C13 witness of the other case: a keyup found the open combo empty
C13_WitnessNoOp ==
  /\ last.op = "handleKey" /\ last.type = "keyup"
  /\ last.restarts = 0
  /\ recordedSequence # <<>>

\* C14: a key event restarts the idle timer once for each combo it closes and
\* otherwise leaves the handle and the pending timeouts alone, record()
\* leaves them alone too; a restart leaves the new timeout, with the resolved
\* delay, as the only one pending, so never more than one is pending, it is
\* the one the handle names, and it is the one whose firing ends the recording
C14_TimerDiscipline ==
  [][/\ last'.op = "handleKey"
          => /\ last'.restarts = Len(closedCombos') - Len(closedCombos)
             /\ last'.restarts = 0 => UNCHANGED <<recordTimer, timers>>
             /\ last'.restarts > 0
                  => /\ Cardinality(timers') = 1
                     /\ \A t \in timers' : /\ recordTimer' = <<t.id>>
                                           /\ t.delay = recordTimeout
     /\ last'.op = "record" => UNCHANGED <<recordTimer, timers>>
     /\ last'.op = "finishRecording"
          => /\ Cardinality(timers) = 1
             /\ \A t \in timers : recordTimer = <<t.id>>
             /\ timers' = {}
             /\ recordTimer' = <<>>
     /\ Cardinality(timers') <= 1
     /\ (recordTimer' = <<>>) = (timers' = {})
    ]_vars

\* C14 witness: a second combo was closed while the timeout of the first was
\* pending, and one timeout is pending afterwards
C14_Witness ==
  /\ last.op = "handleKey" /\ last.restarts = 1
  /\ Len(closedCombos) = 2
  /\ Cardinality(timers) = 1
  /\ \A t \in timers : recordTimer = <<t.id>>

\* C15: the list a firing delivers to the completion callback has as many
\* elements as there were combo-boundary events (re-entry or release) since
\* the record() call that started the recording on an instance not recording
C15_DeliveredLength ==
  (/\ last.op = "finishRecording" /\ last.callback # ""
   /\ last.boundaryEvents # <<>>)
    => /\ Len(last.completed) = 1
       /\ Len(last.completed[1].sequence) = last.boundaryEvents[1]

\* C16: in every reachable state no key name occurs twice in the open combo,
\* and none occurs twice in any combo of the Sequence
C16_UniqueKeys ==
  /\ NoDuplicates(currentRecordedKeys)
  /\ \A i \in 1..Len(recordedSequence) : NoDuplicates(recordedSequence[i])

\* C16 witness: ctrl came again while the open combo held ctrl and k, behind
\* a closed combo, and the open combo still holds each once
C16_Witness ==
  /\ last.op = "handleKey" /\ last.heldRepeat /\ last.character = "ctrl"
  /\ Range(currentRecordedKeys) = {"ctrl", "k"}
  /\ Len(currentRecordedKeys) = 2
  /\ recordedSequence # <<>>

\* C17: in every reachable state the has-character flag is set exactly when
\* the open combo holds a key whose name is a single character
C17_CharacterFlag ==
  recordedCharacterKey =
    (\E key \in Range(currentRecordedKeys) : Len(key) = 1)

\* C18: record() on an instance whose recording flag is false sets the flag
\* and starts from an empty Sequence and an empty open combo, so nothing
\* recorded before the call can reach its callbacks
C18_SessionStartsEmpty ==
  [][(last'.op = "record" /\ ~recording[last'.self])
       => /\ recording'[last'.self]
          /\ recordedSequence' = <<>>
          /\ currentRecordedKeys' = <<>>
    ]_vars

\* C19: whenever an instance's recording flag is set, a completion callback
\* is registered and it is the wrapper that clears that instance's flag
C19_CallbackRegistered ==
  \A self \in Instances :
    recording[self]
      => /\ recordedSequenceCallback # <<>>
         /\ recordedSequenceCallback[1].self = self

\* C20: every combo in the Sequence holds at least one key, and no element of
\* a list given to the completion callback is the empty string
C20_NoEmptyCombo ==
  /\ \A i \in 1..Len(recordedSequence) : recordedSequence[i] # <<>>
  /\ \A i \in 1..Len(closedCombos) : closedCombos[i] # {}
  /\ last.op = "finishRecording"
       => \A c \in 1..Len(last.completed) :
            \A i \in 1..Len(last.completed[c].sequence) :
              last.completed[c].sequence[i] # ""

====
